---- MODULE Spec2Model ----
(***************************************************************************)
(* Model of the AI Image Studio thin client:                               *)
(*   - modules/config.py          static preset tables                     *)
(*   - modules/image_generator.py StabilityImageGenerator (prompt          *)
(*                                enhancer, single/multiple generation)    *)
(*   - modules/app.py             Streamlit script: API wrappers, response *)
(*                                decoder, history ledger, tab handlers    *)
(*                                                                         *)
(* Text is modelled as a sequence of chunks: a chunk is either one         *)
(* whitespace character (" ", "\n") or a run of text that neither starts   *)
(* nor ends with whitespace.  Concatenation of text is \o, the empty       *)
(* string is << >>.                                                        *)
(***************************************************************************)
EXTENDS Integers, Sequences, FiniteSets, TLC

VARIABLES
    secrets_key,   \* st.secrets["STABILITY_API_KEY"] (None when not set)
    env_key,       \* os.environ["STABILITY_API_KEY"] ("" stands for unset)
    api_key,       \* StabilityImageGenerator.api_key, read once in __init__
    history,       \* st.session_state.history, newest entry first
    now,           \* the wall clock, in minutes (datetime.now())
    recorded,      \* log: entries recorded since the ledger was last empty
    pc,            \* position of the running script / call
    op,            \* the action under way and its inputs
    posts,         \* requests.post calls issued by the action, in order
    inflight,      \* requests sent and not yet answered
    served,        \* request index -> the reply the server gave to it
    results,       \* generate_multiple: the local list `results`
    total_cost,    \* generate_multiple: the local `total_cost`, in cents
    outcome,       \* what the action showed / returned / raised
    call,          \* a pending call of a pure function and its arguments
    ret            \* << >> before the call ran, then <<its result>>

vars == << secrets_key, env_key, api_key, history, now, recorded, pc, op,
           posts, inflight, served, results, total_cost, outcome, call, ret >>

None == "None#"          \* Python's None

-----------------------------------------------------------------------------
(* Bounds of the model *)

MaxNow == 5          \* the clock runs over half minutes 0..MaxNow
MaxRecords == 21     \* record operations explored since the ledger was empty
MaxVariants == 3     \* largest num_variants explored
MaxArtifacts == 3    \* longest artifacts list fed to the decoder
MaxSessionRecords == 2   \* a session's actions start while the ledger is shorter

-----------------------------------------------------------------------------
(* Text helpers *)

Whitespace == {" ", "\n"}

RECURSIVE lstrip(_)
lstrip(s) == IF s # << >> /\ Head(s) \in Whitespace THEN lstrip(Tail(s)) ELSE s

RECURSIVE rstrip(_)
rstrip(s) ==
    IF s # << >> /\ s[Len(s)] \in Whitespace
    THEN rstrip(SubSeq(s, 1, Len(s) - 1))
    ELSE s

\* str.strip(): leading and trailing whitespace removed
strip(s) == rstrip(lstrip(s))

\* p is a prefix of s
IsPrefix(p, s) == Len(p) <= Len(s) /\ SubSeq(s, 1, Len(p)) = p

\* t occurs in s as a contiguous piece
Contains(s, t) ==
    \E k \in 0..(Len(s) - Len(t)) : SubSeq(s, k + 1, k + Len(t)) = t

Reverse(s) == [k \in 1..Len(s) |-> s[Len(s) + 1 - k]]

Min(a, b) == IF a <= b THEN a ELSE b

-----------------------------------------------------------------------------
(* modules/config.py *)

STYLE_PRESETS ==
    ("None" :> << >>) @@
    ("Photorealistic" :> <<"ultra-realistic, high-definition, professional photography, sharp details">>) @@
    ("Digital Art" :> <<"digital painting, concept art, detailed illustration, vibrant colors">>) @@
    ("Cartoon Style" :> <<"cartoon, animated style, colorful and fun, playful">>) @@
    ("Oil Painting" :> <<"classical oil painting, artistic brushstrokes, textured canvas">>) @@
    ("Sketch" :> <<"pencil sketch, hand-drawn, artistic lines, monochrome">>) @@
    ("Vintage" :> <<"vintage style, retro aesthetic, aged look, nostalgic">>) @@
    ("Cyberpunk" :> <<"neon lights, futuristic, cyberpunk aesthetic, dark atmosphere">>) @@
    ("Minimalist" :> <<"clean, simple, minimalist design, elegant simplicity">>)

ASPECT_RATIOS ==
    ("Square (1:1)" :> "1:1") @@
    ("Portrait (9:16)" :> "9:16") @@
    ("Landscape (16:9)" :> "16:9") @@
    ("Wide (21:9)" :> "21:9")

\* STABILITY_API_CONFIG
base_url == "https://api.stability.ai/v2beta/stable-image/generate/core"
cost_per_image == 4     \* 0.04, counted in cents
timeout == 60

QualityBoostText == <<", ", "high quality, detailed, professional, sharp focus">>

-----------------------------------------------------------------------------
(* modules/image_generator.py: the prompt enhancer *)

\* a bug that forgets the style preset
enhance_prompt_NoStyle(prompt, style, quality_boost) ==
    IF quality_boost THEN strip(prompt) \o QualityBoostText ELSE strip(prompt)

\* a bug that applies the quality boost whatever the flag says
enhance_prompt_AlwaysBoost(prompt, style, quality_boost) ==
    LET enhanced == strip(prompt)
        styled == IF style # "None" /\ style \in DOMAIN STYLE_PRESETS
                     /\ STYLE_PRESETS[style] # << >>
                  THEN enhanced \o <<", ">> \o STYLE_PRESETS[style]
                  ELSE enhanced
    IN  styled \o QualityBoostText

enhance_prompt(prompt, style, quality_boost) ==
    LET enhanced == strip(prompt)
        styled ==
            IF style # "None" /\ style \in DOMAIN STYLE_PRESETS
            THEN LET style_text == STYLE_PRESETS[style]
                 IN  IF style_text # << >>
                     THEN enhanced \o <<", ">> \o style_text
                     ELSE enhanced
            ELSE enhanced
    IN  IF quality_boost THEN styled \o QualityBoostText ELSE styled

-----------------------------------------------------------------------------
(* Python values *)

\* a call that returned v / a call that raised an exception with text m
Ok(v) == [raised |-> FALSE, value |-> v, msg |-> << >>]
Raise(m) == [raised |-> TRUE, value |-> << >>, msg |-> m]

\* str(status_code)
StatusText == (200 :> "200") @@ (429 :> "429") @@ (500 :> "500")

\* str(e) of the transport exceptions requests.post raises
TransportText ==
    ("timeout" :> <<"Read timed out.">>) @@
    ("connection" :> <<"Connection refused">>)

\* base64.b64decode on the payloads the model uses
b64decode ==
    ("b64:A" :> "png:A") @@ ("b64:B" :> "png:B") @@ ("b64:junk" :> "junk")

\* PIL.Image.open(io.BytesIO(bytes))
Image_open(bytes) ==
    CASE bytes = "png:A" -> Ok("imgA")
      [] bytes = "png:B" -> Ok("imgB")
      [] OTHER -> Raise(<<"cannot identify image file">>)

-----------------------------------------------------------------------------
(* modules/app.py: API plumbing *)

_get_api_key == IF secrets_key \in {None, ""} THEN env_key ELSE secrets_key

\* art.get("base64")
ArtBase64(art) == IF "base64" \in DOMAIN art THEN art.base64 ELSE None

\* a bug that stops at the first entry without the field
RECURSIVE DecodeLoop_StopAtMissing(_, _, _)
DecodeLoop_StopAtMissing(arts, k, imgs) ==
    IF k > Len(arts) \/ ArtBase64(arts[k]) \in {None, ""}
    THEN Ok(imgs)
    ELSE LET im == Image_open(b64decode[ArtBase64(arts[k])])
         IN  IF im.raised THEN im
             ELSE DecodeLoop_StopAtMissing(arts, k + 1, Append(imgs, im.value))

\* the loop of _decode_artifacts_to_pil from entry k on, imgs decoded so far
RECURSIVE DecodeLoop(_, _, _)
DecodeLoop(arts, k, imgs) ==
    IF k > Len(arts) THEN Ok(imgs)
    ELSE LET b64 == ArtBase64(arts[k])
         IN  IF b64 \in {None, ""}
             THEN DecodeLoop(arts, k + 1, imgs)
             ELSE LET im == Image_open(b64decode[b64])
                  IN  IF im.raised THEN im
                      ELSE DecodeLoop(arts, k + 1, Append(imgs, im.value))

\* a bug that treats an empty result as an error
_decode_artifacts_to_pil_RaiseOnEmpty(json_resp) ==
    LET arts == IF "artifacts" \in DOMAIN json_resp
                THEN json_resp.artifacts ELSE << >>
        imgs == DecodeLoop(arts, 1, << >>)
    IN  IF ~imgs.raised /\ imgs.value = << >>
        THEN Raise(<<"no images">>) ELSE imgs

_decode_artifacts_to_pil(json_resp) ==
    LET arts == IF "artifacts" \in DOMAIN json_resp
                THEN json_resp.artifacts ELSE << >>
    IN  DecodeLoop(arts, 1, << >>)

\* a bug that takes the generator's configured timeout for text-to-image
PostJsonTimeout_FromConfig == timeout

PostJsonTimeout == 90
PostMultipartTimeout == 120

\* a bug that leaves the response body out of the error
PostResult_NoBody(reply) ==
    IF reply.kind # "http" THEN Raise(TransportText[reply.kind])
    ELSE IF reply.status # 200
    THEN Raise(<<"HTTP ", StatusText[reply.status]>>)
    ELSE IF ~reply.json_ok THEN Raise(<<"Expecting value">>)
    ELSE Ok(reply.json)

\* what _post_json / _post_multipart make of the server's reply
PostResult(reply) ==
    IF reply.kind # "http" THEN Raise(TransportText[reply.kind])
    ELSE IF reply.status # 200
    THEN Raise(<<"HTTP ", StatusText[reply.status], ": ">> \o reply.text)
    ELSE IF ~reply.json_ok THEN Raise(<<"Expecting value">>)
    ELSE Ok(reply.json)

_post_json(reply) == PostResult(reply)

_post_multipart(reply) == PostResult(reply)

-----------------------------------------------------------------------------
(* modules/app.py: API wrappers, as functions of the reply to their POST *)

txt2img(reply) ==
    LET resp == _post_json(reply)
    IN  IF resp.raised THEN resp ELSE _decode_artifacts_to_pil(resp.value)

img2img(reply) ==
    LET resp == _post_multipart(reply)
    IN  IF resp.raised THEN resp ELSE _decode_artifacts_to_pil(resp.value)

inpaint(reply) ==
    LET resp == _post_multipart(reply)
    IN  IF resp.raised THEN resp ELSE _decode_artifacts_to_pil(resp.value)

\* a bug that takes the last image, imgs[-1]
upscale_esrgan_Last(reply) ==
    LET resp == _post_multipart(reply)
    IN  IF resp.raised THEN resp
        ELSE LET imgs == _decode_artifacts_to_pil(resp.value)
             IN  IF imgs.raised THEN imgs
                 ELSE IF imgs.value = << >>
                 THEN Raise(<<"Upscale returned no images">>)
                 ELSE Ok(imgs.value[Len(imgs.value)])

upscale_esrgan(reply) ==
    LET resp == _post_multipart(reply)
    IN  IF resp.raised THEN resp
        ELSE LET imgs == _decode_artifacts_to_pil(resp.value)
             IN  IF imgs.raised THEN imgs
                 ELSE IF imgs.value = << >>
                 THEN Raise(<<"Upscale returned no images">>)
                 ELSE Ok(imgs.value[1])

-----------------------------------------------------------------------------
(* modules/app.py: the history ledger *)

DEFAULT_ENGINE == "stable-diffusion-xl-1024-v1-0"
FALLBACK_ENGINE == "stable-diffusion-v1-6"
ESRGAN_ENGINE == "esrgan-v1-x2plus"

HistoryCap == 20     \* st.session_state.history[:20]
ImagesKept == 4      \* images[:4]

\* datetime.now().strftime("%Y-%m-%d %H:%M"): the clock counts half minutes,
\* the stamp keeps the minute
strftime(t) == t \div 2

\* the dict add_to_history inserts
HistoryEntry(mode, engine, prompt, images) ==
    [mode |-> mode, engine |-> engine, prompt |-> prompt,
     count |-> Len(images),
     images |-> SubSeq(images, 1, Min(ImagesKept, Len(images))),
     ts |-> strftime(now)]

\* a bug that appends at the tail before capping
add_to_history_AtTail(mode, engine, prompt, images) ==
    LET inserted == Append(history, HistoryEntry(mode, engine, prompt, images))
    IN  SubSeq(inserted, 1, Min(HistoryCap, Len(inserted)))

\* the value of st.session_state.history after add_to_history
add_to_history(mode, engine, prompt, images) ==
    LET inserted == <<HistoryEntry(mode, engine, prompt, images)>> \o history
    IN  SubSeq(inserted, 1, Min(HistoryCap, Len(inserted)))

-----------------------------------------------------------------------------
(* Values the model draws from *)

SeqsUpTo(S, n) == UNION {[1..k -> S] : k \in 0..n}

\* one entry of the "artifacts" list: with the base64 field or without it
Artifacts(payloads) ==
    {[finishReason |-> "ERROR"]} \cup
    {[base64 |-> b, finishReason |-> "SUCCESS"] : b \in payloads}

\* JSON documents of a 200 answer: with an artifacts list, or without the key
JsonBodies(payloads, n) ==
    {[artifacts |-> a] : a \in SeqsUpTo(Artifacts(payloads), n)} \cup
    {[message |-> "ok"]}

Http200(json) ==
    [kind |-> "http", status |-> 200, text |-> << >>,
     json_ok |-> TRUE, json |-> json, content |-> ""]

NoReply ==
    [kind |-> "none", status |-> 0, text |-> << >>,
     json_ok |-> FALSE, json |-> [message |-> "ok"], content |-> ""]

Prompts ==
    { <<"a red fox">>, <<" ", "a red fox">>, <<"a red fox", "\n">>,
      <<" ", "fox", " ", "den", " ">>, << >>, <<" ">> }

\* the keys of the preset table, the empty key and a key the table lacks
StyleKeys == DOMAIN STYLE_PRESETS \cup {"", "Watercolor"}

DecoderPayloads == {"", "b64:A", "b64:B", "b64:junk"}

NoCall ==
    [fn |-> "none", prompt |-> << >>, style |-> "None",
     quality_boost |-> FALSE, reply |-> NoReply]

NoOp == [name |-> "none"]

NoOutcome == [kind |-> "none", errors |-> << >>, warnings |-> << >>, images |-> << >>]

\* the state of everything but the listed parts, after construction
IdleSession ==
    /\ history = << >>
    /\ now = 0
    /\ recorded = << >>
    /\ op = NoOp
    /\ posts = << >>
    /\ inflight = {}
    /\ served = << >>
    /\ results = << >>
    /\ total_cost = 0
    /\ outcome = NoOutcome

NoKeys == secrets_key = None /\ env_key = "" /\ api_key = ""

sessionVars == << history, now, recorded, pc, op, posts, inflight, served,
                  results, total_cost, outcome >>
keyVars == << secrets_key, env_key, api_key >>

-----------------------------------------------------------------------------
(* The prompt enhancer, applied to drawn inputs *)

InitEnhance ==
    /\ NoKeys /\ IdleSession /\ pc = "pure"
    /\ call \in {[fn |-> "enhance_prompt", prompt |-> p, style |-> s,
                  quality_boost |-> q, reply |-> NoReply]
                 : p \in Prompts, s \in StyleKeys, q \in BOOLEAN}
    /\ ret = << >>

CallEnhance ==
    /\ call.fn = "enhance_prompt" /\ ret = << >>
    /\ ret' = <<enhance_prompt(call.prompt, call.style, call.quality_boost)>>
    /\ UNCHANGED << keyVars, sessionVars, call >>

SpecEnhance == InitEnhance /\ [][CallEnhance]_vars

-----------------------------------------------------------------------------
(* The response decoder and the wrappers, applied to drawn 200 answers *)

DecoderFns == {"_decode_artifacts_to_pil", "txt2img", "img2img", "inpaint",
               "upscale_esrgan"}

InitDecode ==
    /\ NoKeys /\ IdleSession /\ pc = "pure"
    /\ call \in {[fn |-> f, prompt |-> << >>, style |-> "None",
                  quality_boost |-> FALSE, reply |-> Http200(j)]
                 : f \in DecoderFns, j \in JsonBodies(DecoderPayloads, MaxArtifacts)}
    /\ ret = << >>

Returns(fn, result) ==
    /\ call.fn = fn /\ ret = << >>
    /\ ret' = <<result>>
    /\ UNCHANGED << keyVars, sessionVars, call >>

CallDecode == Returns("_decode_artifacts_to_pil", _decode_artifacts_to_pil(call.reply.json))
CallTxt2img == Returns("txt2img", txt2img(call.reply))
CallImg2img == Returns("img2img", img2img(call.reply))
CallInpaint == Returns("inpaint", inpaint(call.reply))
CallUpscale == Returns("upscale_esrgan", upscale_esrgan(call.reply))

NextDecode ==
    \/ CallDecode
    \/ CallTxt2img
    \/ CallImg2img
    \/ CallInpaint
    \/ CallUpscale

SpecDecode == InitDecode /\ [][NextDecode]_vars

-----------------------------------------------------------------------------
(* The Streamlit session of modules/app.py.  Every click reruns the script:  *)
(* sidebar_status, then the handler of the one button that was pressed.  A   *)
(* handler runs up to its requests.post (Click...), blocks until the server  *)
(* answers or the transport gives up, and then runs to its end (Finish...).  *)

\* what the run showed: st.stop() after st.error, st.error in an except
\* clause, st.warning, or the rendered images
Stopped(msg) == [kind |-> "stopped", errors |-> <<msg>>, warnings |-> << >>, images |-> << >>]
Errored(msg) == [kind |-> "error", errors |-> <<msg>>, warnings |-> << >>, images |-> << >>]
Warned(msg) == [kind |-> "warning", errors |-> << >>, warnings |-> <<msg>>, images |-> << >>]
Rendered(imgs) == [kind |-> "rendered", errors |-> << >>, warnings |-> << >>, images |-> imgs]

MissingKeyMsg == <<"Missing STABILITY_API_KEY -- set it in Streamlit Secrets.">>

\* a bug that shows the error and forgets st.stop()
_assert_api_key_NoStop == TRUE

\* TRUE when the script goes on past _assert_api_key, FALSE when it stops
_assert_api_key == _get_api_key \notin {None, ""}

\* Image.open(upload): uploads are a PNG or a file PIL cannot read
Uploads == {"png", "corrupt"}
OpenUpload(up) ==
    IF up = "png" THEN Ok("upload")
    ELSE Raise(<<"cannot identify image file">>)

HttpError(status, text) ==
    [kind |-> "http", status |-> status, text |-> text,
     json_ok |-> FALSE, json |-> [message |-> "ok"], content |-> ""]

Transport(kind) ==
    [kind |-> kind, status |-> 0, text |-> << >>,
     json_ok |-> FALSE, json |-> [message |-> "ok"], content |-> ""]

ErrorReplies ==
    { HttpError(429, <<"rate limited">>),
      HttpError(500, <<"internal", " ", "error">>),
      Transport("timeout"), Transport("connection") }

ArtMissing == [finishReason |-> "ERROR"]
ArtImage == [base64 |-> "b64:A", finishReason |-> "SUCCESS"]
ArtImageB == [base64 |-> "b64:B", finishReason |-> "SUCCESS"]
ArtJunk == [base64 |-> "b64:junk", finishReason |-> "SUCCESS"]

\* the artifacts lists the session's server sends
SessionArtifacts ==
    { << >>, <<ArtImage>>, <<ArtImage, ArtImageB>>, <<ArtMissing>>,
      <<ArtMissing, ArtImage>>, <<ArtJunk>>, <<ArtImage, ArtJunk>> }

\* every way a POST of the session can end
AppReplies ==
    {Http200([artifacts |-> a]) : a \in SessionArtifacts}
    \cup {Http200([message |-> "ok"])}
    \cup {[Http200([message |-> "ok"]) EXCEPT !.json_ok = FALSE]}
    \cup ErrorReplies

Request(idx, url, seconds, data) ==
    [idx |-> idx, url |-> url, timeout |-> seconds, data |-> data]

\* the handler ended before any request was sent
Halt(shown) ==
    /\ posts' = << >>
    /\ inflight' = inflight
    /\ pc' = "idle"
    /\ outcome' = shown

\* the handler called requests.post and waits for it to return
Send(req) ==
    /\ posts' = <<req>>
    /\ inflight' = inflight \cup {req}
    /\ pc' = "await"
    /\ outcome' = NoOutcome

\* a script run starts: the widgets are read, nothing of the last run stays
ClickFrame ==
    /\ served' = << >>
    /\ UNCHANGED << keyVars, history, now, recorded, results, total_cost, call, ret >>

\* the handler's except clause: st.error, nothing rendered, no history entry
Fail(text, e) ==
    /\ outcome' = Errored(text \o e)
    /\ UNCHANGED << history, recorded >>

\* a bug that records the run although it returned no image
Warn_Record(text) ==
    /\ outcome' = Warned(text)
    /\ history' = add_to_history(op.name, DEFAULT_ENGINE, op.prompt, << >>)
    /\ recorded' = Append(recorded,
            HistoryEntry(op.name, DEFAULT_ENGINE, op.prompt, << >>))

\* st.warning for an empty result, no history entry
Warn(text) ==
    /\ outcome' = Warned(text)
    /\ UNCHANGED << history, recorded >>

\* the images are rendered and the run is recorded
Success(shown, mode, engine, prompt, imgs) ==
    /\ outcome' = Rendered(shown)
    /\ history' = add_to_history(mode, engine, prompt, imgs)
    /\ recorded' = Append(recorded, HistoryEntry(mode, engine, prompt, imgs))

\* requests.post returned or raised: the reply to the one request in flight
Answered(req, reply) ==
    /\ req \in inflight
    /\ inflight' = inflight \ {req}
    /\ served' = (req.idx :> reply) @@ served
    /\ pc' = "idle"
    /\ UNCHANGED << keyVars, now, op, posts, results, total_cost, call, ret >>

TabPrompts == {<< >>, <<"a red fox">>}
SampleChoices == {1, 4}
ENGINE == DEFAULT_ENGINE

\* Tab Generate, up to txt2img's POST
ClickGenerate ==
    /\ pc = "idle" /\ Len(history) < MaxSessionRecords
    /\ \E prompt \in TabPrompts, samples \in SampleChoices :
        /\ prompt # << >>
        /\ op' = [name |-> "Generate", prompt |-> prompt]
        /\ IF ~_assert_api_key THEN Halt(Stopped(MissingKeyMsg))
           ELSE Send(Request(1, <<ENGINE, "text-to-image">>, PostJsonTimeout,
                             [prompt |-> prompt, samples |-> samples]))
    /\ ClickFrame

\* Tab Generate, from txt2img's POST to the end of the handler
FinishGenerate ==
    /\ pc = "await" /\ op.name = "Generate"
    /\ \E req \in inflight, reply \in AppReplies :
        /\ Answered(req, reply)
        /\ LET imgs == txt2img(reply)
           IN  IF imgs.raised THEN Fail(<<"Generation failed: ">>, imgs.msg)
               ELSE IF imgs.value = << >> THEN Warn(<<"No images returned.">>)
               ELSE Success(imgs.value, "Generate", ENGINE, op.prompt, imgs.value)

\* Tab Transform, up to img2img's POST
ClickTransform ==
    /\ pc = "idle" /\ Len(history) < MaxSessionRecords
    /\ \E up \in Uploads, t_prompt \in TabPrompts :
        /\ t_prompt # << >>
        /\ op' = [name |-> "Transform", prompt |-> t_prompt]
        /\ IF ~_assert_api_key THEN Halt(Stopped(MissingKeyMsg))
           ELSE IF OpenUpload(up).raised
           THEN Halt(Errored(<<"Transformation failed: ">> \o OpenUpload(up).msg))
           ELSE Send(Request(1, <<ENGINE, "image-to-image">>, PostMultipartTimeout,
                             [prompt |-> t_prompt, samples |-> 1]))
    /\ ClickFrame

\* Tab Transform, from img2img's POST to the end of the handler
FinishTransform ==
    /\ pc = "await" /\ op.name = "Transform"
    /\ \E req \in inflight, reply \in AppReplies :
        /\ Answered(req, reply)
        /\ LET imgs == img2img(reply)
           IN  IF imgs.raised THEN Fail(<<"Transformation failed: ">>, imgs.msg)
               ELSE IF imgs.value = << >> THEN Warn(<<"No image returned.">>)
               ELSE Success(<<"upload", imgs.value[1]>>, "Transform", ENGINE,
                            op.prompt, imgs.value)

MaskSources == {"MASK_IMAGE_WHITE", "INIT_IMAGE_ALPHA"}
Masks == {None, "png", "corrupt"}

\* Tab Inpaint, up to inpaint's POST
ClickInpaint ==
    /\ pc = "idle" /\ Len(history) < MaxSessionRecords
    /\ \E base \in Uploads, mask \in Masks, mask_source \in MaskSources,
          p \in TabPrompts :
        \* the button is disabled unless base and (mask or alpha) and p
        /\ (mask # None \/ mask_source = "INIT_IMAGE_ALPHA") /\ p # << >>
        /\ op' = [name |-> "Inpaint", prompt |-> p]
        /\ IF ~_assert_api_key THEN Halt(Stopped(MissingKeyMsg))
           ELSE IF OpenUpload(base).raised
           THEN Halt(Errored(<<"Inpaint failed: ">> \o OpenUpload(base).msg))
           ELSE IF mask_source # "INIT_IMAGE_ALPHA" /\ mask = None
           THEN Halt(Stopped(<<"Mask image required unless using INIT_IMAGE_ALPHA.">>))
           ELSE IF mask_source # "INIT_IMAGE_ALPHA" /\ OpenUpload(mask).raised
           THEN Halt(Errored(<<"Inpaint failed: ">> \o OpenUpload(mask).msg))
           ELSE Send(Request(1, <<ENGINE, "image-to-image/masking">>,
                             PostMultipartTimeout,
                             [prompt |-> p, samples |-> 1,
                              mask_source |-> mask_source]))
    /\ ClickFrame

\* Tab Inpaint, from inpaint's POST to the end of the handler
FinishInpaint ==
    /\ pc = "await" /\ op.name = "Inpaint"
    /\ \E req \in inflight, reply \in AppReplies :
        /\ Answered(req, reply)
        /\ LET imgs == inpaint(reply)
           IN  IF imgs.raised THEN Fail(<<"Inpaint failed: ">>, imgs.msg)
               ELSE IF imgs.value = << >> THEN Warn(<<"No image returned.">>)
               ELSE Success(<<"upload", imgs.value[1]>>, "Inpaint", ENGINE,
                            op.prompt, imgs.value)

\* the Upscale tab's number inputs (0..4096, of which these are explored)
TargetChoices == {0, 448, 512}

\* `int(t) if t and t >= 512 else None`, None being << >> and int n <<n>>
TargetOrNone(t) == IF t # 0 /\ t >= 512 THEN <<t>> ELSE << >>

\* upscale_esrgan's form fields: `if desired_w: data["width"] = str(desired_w)`
UpscaleData(desired_w, desired_h) ==
    (IF desired_w # << >> /\ desired_w[1] # 0
     THEN ("width" :> desired_w[1]) ELSE << >>) @@
    (IF desired_h # << >> /\ desired_h[1] # 0
     THEN ("height" :> desired_h[1]) ELSE << >>)

\* Tab Upscale, up to upscale_esrgan's POST
ClickUpscale ==
    /\ pc = "idle" /\ Len(history) < MaxSessionRecords
    /\ \E u \in Uploads, target_w \in TargetChoices, target_h \in TargetChoices :
        /\ op' = [name |-> "Upscale", prompt |-> <<"(upscale)">>]
        /\ IF ~_assert_api_key THEN Halt(Stopped(MissingKeyMsg))
           ELSE IF OpenUpload(u).raised
           THEN Halt(Errored(<<"Upscale failed: ">> \o OpenUpload(u).msg))
           ELSE Send(Request(1, <<ESRGAN_ENGINE, "image-to-image/upscale">>,
                             PostMultipartTimeout,
                             UpscaleData(TargetOrNone(target_w),
                                         TargetOrNone(target_h))))
    /\ ClickFrame

\* Tab Upscale, from upscale_esrgan's POST to the end of the handler
FinishUpscale ==
    /\ pc = "await" /\ op.name = "Upscale"
    /\ \E req \in inflight, reply \in AppReplies :
        /\ Answered(req, reply)
        /\ LET out == upscale_esrgan(reply)
           IN  IF out.raised THEN Fail(<<"Upscale failed: ">>, out.msg)
               ELSE Success(<<"upload", out.value>>, "Upscale", ESRGAN_ENGINE,
                            <<"(upscale)">>, <<out.value>>)

\* Tab Variations, up to img2img's POST
ClickVariations ==
    /\ pc = "idle" /\ Len(history) < MaxSessionRecords
    /\ \E v_up \in Uploads, v_prompt \in TabPrompts, v_count \in SampleChoices :
        /\ op' = [name |-> "Variations",
                  prompt |-> IF v_prompt # << >> THEN v_prompt ELSE <<"(no prompt)">>]
        /\ IF ~_assert_api_key THEN Halt(Stopped(MissingKeyMsg))
           ELSE IF OpenUpload(v_up).raised
           THEN Halt(Errored(<<"Variations failed: ">> \o OpenUpload(v_up).msg))
           ELSE Send(Request(1, <<ENGINE, "image-to-image">>, PostMultipartTimeout,
                             [prompt |-> v_prompt, samples |-> v_count]))
    /\ ClickFrame

\* Tab Variations, from img2img's POST to the end of the handler
FinishVariations ==
    /\ pc = "await" /\ op.name = "Variations"
    /\ \E req \in inflight, reply \in AppReplies :
        /\ Answered(req, reply)
        /\ LET imgs == img2img(reply)
           IN  IF imgs.raised THEN Fail(<<"Variations failed: ">>, imgs.msg)
               ELSE IF imgs.value = << >> THEN Warn(<<"No images returned.">>)
               ELSE Success(imgs.value, "Variations", ENGINE, op.prompt, imgs.value)

-----------------------------------------------------------------------------
(* Properties of the prompt enhancer (SpecEnhance) *)

Returned(fn) == call.fn = fn /\ ret # << >>

InPresetTable == call.style \in DOMAIN STYLE_PRESETS \ {"None"}

\* C6, as claimed: for every style key of the preset table except "None" and
\* for every prompt, the result starts with the prompt, then ", ", then the
\* style's exact text.
C6_PromptIsPrefix ==
    (Returned("enhance_prompt") /\ InPresetTable) =>
        IsPrefix(call.prompt \o <<", ">> \o STYLE_PRESETS[call.style], ret[1])

\* C6, amended: for every style key of the preset table except "None" and for
\* every prompt, the result starts with the prompt stripped of its leading
\* and trailing whitespace, then ", ", then the style's exact text.
C6_StrippedPromptIsPrefix ==
    (Returned("enhance_prompt") /\ InPresetTable) =>
        IsPrefix(strip(call.prompt) \o <<", ">> \o STYLE_PRESETS[call.style],
                 ret[1])

C6_Witness ==
    /\ Returned("enhance_prompt")
    /\ call.style = "Photorealistic"
    /\ call.prompt = <<" ", "a red fox">>
    /\ ret[1] = <<"a red fox", ", ",
                  "ultra-realistic, high-definition, professional photography, sharp details",
                  ", ", "high quality, detailed, professional, sharp focus">>

NoPreset == call.style \notin DOMAIN STYLE_PRESETS \ {"None"}

\* C7, as claimed: for the "None" key, the empty key and any key the table
\* lacks, the result equals the input prompt, followed by the fixed
\* quality-boost text exactly when quality_boost is set.
C7_PromptUnchanged ==
    (Returned("enhance_prompt") /\ NoPreset) =>
        ret[1] = IF call.quality_boost
                 THEN call.prompt \o QualityBoostText
                 ELSE call.prompt

\* C7, amended: for those keys the result equals the input prompt stripped
\* of its leading and trailing whitespace, followed by the fixed
\* quality-boost text exactly when quality_boost is set.
C7_StrippedPromptUnchanged ==
    (Returned("enhance_prompt") /\ NoPreset) =>
        ret[1] = IF call.quality_boost
                 THEN strip(call.prompt) \o QualityBoostText
                 ELSE strip(call.prompt)

C7_Witness ==
    /\ Returned("enhance_prompt")
    /\ call.style = "Watercolor"
    /\ ~call.quality_boost
    /\ call.prompt = <<"a red fox", "\n">>
    /\ ret[1] = <<"a red fox">>

-----------------------------------------------------------------------------
(* Properties of the response decoder (SpecDecode) *)

\* the artifacts list of the answer the call was given
CallArts ==
    IF "artifacts" \in DOMAIN call.reply.json
    THEN call.reply.json.artifacts ELSE << >>

HasField(art) == "base64" \in DOMAIN art
HasPayload(art) == HasField(art) /\ art.base64 \notin {None, ""}
IsImage(art) == ~Image_open(b64decode[art.base64]).raised
ImageOf(art) == Image_open(b64decode[art.base64]).value

JsonOps == {"txt2img", "img2img", "inpaint", "upscale_esrgan"}

\* C5, as claimed: every operation that decodes a JSON answer returns an
\* empty image sequence, and no error, for an answer with zero artifacts.
C5_EmptyNeverRaises ==
    (call.fn \in JsonOps /\ ret # << >> /\ CallArts = << >>) =>
        (~ret[1].raised /\ ret[1].value = << >>)

\* C5, amended: for an answer with zero artifacts the decoder, text-to-image,
\* image-to-image and inpaint return an empty image sequence and no error;
\* upscale raises "Upscale returned no images".
C5_EmptyRaisesOnlyInUpscale ==
    (call.fn \in DecoderFns /\ ret # << >> /\ CallArts = << >>) =>
        IF call.fn = "upscale_esrgan"
        THEN ret[1] = Raise(<<"Upscale returned no images">>)
        ELSE ret[1] = Ok(<< >>)

C5_Witness ==
    /\ call.fn = "inpaint"
    /\ "artifacts" \notin DOMAIN call.reply.json
    /\ ret = <<Ok(<< >>)>>

-----------------------------------------------------------------------------
(* The history ledger on its own: record operations, Clear History, time *)

InitLedger ==
    /\ NoKeys /\ IdleSession /\ pc = "idle"
    /\ call = NoCall /\ ret = << >>

\* the clock advances
Tick ==
    /\ now < MaxNow
    /\ now' = now + 1
    /\ UNCHANGED << keyVars, history, recorded, pc, op, posts, inflight,
                    served, results, total_cost, outcome, call, ret >>

\* a rerun of the script with the sidebar's Clear History button pressed:
\* no tab button is pressed in that run, so no handler runs
ClickClearHistory ==
    /\ pc = "idle"
    /\ history' = << >>
    /\ recorded' = << >>
    /\ op' = [name |-> "Clear History"]
    /\ posts' = << >> /\ served' = << >> /\ results' = << >>
    /\ total_cost' = 0
    /\ outcome' = NoOutcome
    /\ UNCHANGED << keyVars, now, pc, inflight, call, ret >>

\* one call of add_to_history
Record ==
    /\ pc = "idle"
    /\ Len(recorded) < MaxRecords
    /\ history' = add_to_history("Generate", DEFAULT_ENGINE, <<"a red fox">>, <<"imgA">>)
    /\ recorded' = Append(recorded,
            HistoryEntry("Generate", DEFAULT_ENGINE, <<"a red fox">>, <<"imgA">>))
    /\ UNCHANGED << keyVars, now, pc, op, posts, inflight, served, results,
                    total_cost, outcome, call, ret >>

NextLedger ==
    \/ Tick
    \/ ClickClearHistory
    \/ Record

SpecLedger == InitLedger /\ [][NextLedger]_vars

\* the last n elements of s
LastN(s, n) == SubSeq(s, Len(s) - n + 1, Len(s))

\* C3: after n record operations since the ledger was last empty it holds
\* exactly the min(n, 20) most recently recorded entries, newest first; so it
\* never holds more than 20, and after 21 the 21st is at the head and the 1st
\* is gone.
C3_LedgerHoldsNewest ==
    /\ history = Reverse(LastN(recorded, Min(Len(recorded), HistoryCap)))
    /\ Len(history) <= HistoryCap

C3_Witness ==
    /\ Len(recorded) = HistoryCap + 1
    /\ Len(history) = HistoryCap
    /\ history[1] = recorded[HistoryCap + 1]
    /\ history[HistoryCap] = recorded[2]
    /\ recorded[1].ts < recorded[2].ts
    /\ recorded[2].ts < recorded[HistoryCap + 1].ts

-----------------------------------------------------------------------------
(* modules/image_generator.py: generate_image and generate_multiple.        *)
(* generate_image runs up to its requests.post, blocks, and then returns    *)
(* the image or raises; generate_multiple calls it once per loop turn.      *)

Raised(msg) == [kind |-> "raised", errors |-> <<msg>>, warnings |-> << >>, images |-> << >>]
ReturnedImages(imgs) == [kind |-> "returned", errors |-> << >>, warnings |-> << >>, images |-> imgs]

\* bool(self.api_key)
check_api_key == api_key # ""

HttpContent(bytes) ==
    [kind |-> "http", status |-> 200, text |-> << >>,
     json_ok |-> FALSE, json |-> [message |-> "ok"], content |-> bytes]

\* every way a POST of the generator can end
GenReplies ==
    {HttpContent(c) : c \in {"png:A", "png:B", "junk"}} \cup ErrorReplies

\* generate_image from the return of requests.post on: the try block and the
\* except clause that wraps whatever was raised in it
GenerateImageResult(reply) ==
    LET tried ==
            IF reply.kind # "http" THEN Raise(TransportText[reply.kind])
            ELSE IF reply.status = 200 THEN Image_open(reply.content)
            ELSE Raise(<<"API Error ", StatusText[reply.status], ": ">> \o reply.text)
    IN  IF tried.raised THEN Raise(<<"Generation failed: ">> \o tried.msg)
        ELSE tried

GenRequest(idx, prompt, aspect_ratio) ==
    Request(idx, base_url, timeout,
            [prompt |-> prompt, aspect_ratio |-> aspect_ratio,
             output_format |-> "png"])

\* ASPECT_RATIOS.get(aspect_ratio, "1:1")
ApiAspectRatio(aspect_ratio) ==
    IF aspect_ratio \in DOMAIN ASPECT_RATIOS
    THEN ASPECT_RATIOS[aspect_ratio] ELSE "1:1"

GenPrompts == {<<"a red fox">>, <<" ", "a red fox">>}
GenStyles == {"Photorealistic", "None"}
AspectLabels == {"Square (1:1)", "Wide (21:9)", "Poster (2:3)"}

\* generate_image from its first line to requests.post; sofar are the
\* requests the running call has issued before
GenerateImageEnter(sofar, idx, prompt, aspect_ratio) ==
    IF ~check_api_key
    THEN /\ pc' = "gen_idle"
         /\ outcome' = Raised(<<"Stability AI API key not configured">>)
         /\ posts' = sofar
         /\ inflight' = inflight
    ELSE /\ posts' = Append(sofar, GenRequest(idx, prompt, aspect_ratio))
         /\ inflight' = inflight \cup {GenRequest(idx, prompt, aspect_ratio)}
         /\ pc' = "gi_await"
         /\ outcome' = NoOutcome

\* a caller calls generate_image
CallGenerateImage ==
    /\ pc = "gen_idle"
    /\ \E prompt \in GenPrompts, aspect_ratio \in {"1:1", "16:9"} :
        /\ op' = [name |-> "generate_image", prompt |-> prompt,
                  style |-> "None", aspect_ratio |-> aspect_ratio,
                  num_variants |-> 1, enhanced_prompt |-> prompt,
                  api_aspect_ratio |-> aspect_ratio, i |-> 0]
        /\ GenerateImageEnter(<< >>, 1, prompt, aspect_ratio)
    /\ results' = << >> /\ total_cost' = 0 /\ served' = << >>
    /\ UNCHANGED << keyVars, history, now, recorded, call, ret >>

\* a caller calls generate_multiple: the lines before the loop
CallGenerateMultiple ==
    /\ pc = "gen_idle"
    /\ \E prompt \in GenPrompts, num_variants \in 1..MaxVariants,
          style \in GenStyles, aspect_ratio \in AspectLabels :
        op' = [name |-> "generate_multiple", prompt |-> prompt,
               style |-> style, aspect_ratio |-> aspect_ratio,
               num_variants |-> num_variants,
               enhanced_prompt |-> enhance_prompt(prompt, style, TRUE),
               api_aspect_ratio |-> ApiAspectRatio(aspect_ratio), i |-> 0]
    /\ results' = << >> /\ total_cost' = 0
    /\ posts' = << >> /\ served' = << >>
    /\ outcome' = NoOutcome
    /\ pc' = "gm_loop"
    /\ UNCHANGED << keyVars, history, now, recorded, inflight, call, ret >>

\* a bug that runs the loop once more
LoopContinues_OffByOne == op.i <= op.num_variants

\* `for i in range(num_variants)`: another turn is due
LoopContinues == op.i < op.num_variants

\* a bug that hands every turn to a worker pool without waiting for it
GmIterate_Pool ==
    /\ pc = "gm_loop" /\ op.i < op.num_variants
    /\ posts' = Append(posts, GenRequest(op.i + 1, op.enhanced_prompt, op.api_aspect_ratio))
    /\ inflight' = inflight \cup {GenRequest(op.i + 1, op.enhanced_prompt, op.api_aspect_ratio)}
    /\ op' = [op EXCEPT !.i = @ + 1]
    /\ UNCHANGED << keyVars, history, now, recorded, pc, served, results,
                    total_cost, outcome, call, ret >>

\* generate_multiple at the head of its loop: the next turn calls
\* generate_image, the end of the loop returns (results, total_cost)
GmIterate ==
    /\ pc = "gm_loop"
    /\ IF LoopContinues
       THEN GenerateImageEnter(posts, op.i + 1, op.enhanced_prompt,
                               op.api_aspect_ratio)
       ELSE /\ pc' = "gen_idle"
            /\ outcome' = ReturnedImages(results)
            /\ UNCHANGED << posts, inflight >>
    /\ UNCHANGED << keyVars, history, now, recorded, op, served, results,
                    total_cost, call, ret >>

\* a bug that sends the failed request again
GiRaise_Retry(req, e) ==
    /\ posts' = Append(posts, req)
    /\ inflight' = inflight
    /\ pc' = "gi_await"
    /\ UNCHANGED << outcome, op, results, total_cost >>

\* a bug that collects whatever succeeded: the failed turn is skipped and
\* the loop goes on
GiRaise_Collect(req, e) ==
    /\ posts' = posts
    /\ inflight' = inflight \ {req}
    /\ pc' = "gm_loop"
    /\ op' = [op EXCEPT !.i = @ + 1]
    /\ UNCHANGED << outcome, results, total_cost >>

\* generate_image raises e to its caller, and generate_multiple with it
GiRaise(req, e) ==
    /\ posts' = posts
    /\ inflight' = inflight \ {req}
    /\ pc' = "gen_idle"
    /\ outcome' = Raised(e)
    /\ UNCHANGED << op, results, total_cost >>

\* requests.post of generate_image returned or raised
GiReceive ==
    /\ pc = "gi_await"
    /\ \E req \in inflight, reply \in GenReplies :
        /\ served' = (req.idx :> reply) @@ served
        /\ LET image == GenerateImageResult(reply)
           IN  IF image.raised THEN GiRaise(req, image.msg)
               ELSE /\ posts' = posts
                    /\ inflight' = inflight \ {req}
                    /\ IF op.name = "generate_image"
                       THEN /\ pc' = "gen_idle"
                            /\ outcome' = ReturnedImages(<<image.value>>)
                            /\ UNCHANGED << op, results, total_cost >>
                       ELSE /\ results' = Append(results, image.value)
                            /\ total_cost' = total_cost + cost_per_image
                            /\ op' = [op EXCEPT !.i = @ + 1]
                            /\ pc' = "gm_loop"
                            /\ outcome' = outcome
    /\ UNCHANGED << keyVars, history, now, recorded, call, ret >>

-----------------------------------------------------------------------------
(* The program: a session of app.py, or a caller of the generator class *)

Init ==
    /\ secrets_key \in {None, "", "sk-secret"}
    /\ env_key \in {"", "sk-env"}
    \* st.secrets.get("STABILITY_API_KEY", "")
    /\ api_key = IF secrets_key = None THEN "" ELSE secrets_key
    /\ IdleSession
    /\ pc \in {"idle", "gen_idle"}
    /\ call = NoCall /\ ret = << >>

Next ==
    \/ ClickClearHistory
    \/ ClickGenerate
    \/ FinishGenerate
    \/ ClickTransform
    \/ FinishTransform
    \/ ClickInpaint
    \/ FinishInpaint
    \/ ClickUpscale
    \/ FinishUpscale
    \/ ClickVariations
    \/ FinishVariations
    \/ CallGenerateImage
    \/ CallGenerateMultiple
    \/ GmIterate
    \/ GiReceive

Spec == Init /\ [][Next]_vars

-----------------------------------------------------------------------------
(* Properties of the program (Spec) *)

AppActions == {"Generate", "Transform", "Inpaint", "Upscale", "Variations"}
GenCalls == {"generate_image", "generate_multiple"}

\* C1: with the API key empty or absent, an operation issues no POST and the
\* configuration error is what it reports: the five tab handlers of app.py
\* stop with the missing-key message, generate_image and generate_multiple
\* raise "API key not configured".
C1_NoKeyNoPost ==
    /\ (op.name \in AppActions /\ secrets_key \in {None, ""} /\ env_key = "") =>
          /\ posts = << >> /\ inflight = {} /\ served = << >>
          /\ pc = "idle"
          /\ outcome = Stopped(MissingKeyMsg)
    /\ (op.name \in GenCalls /\ api_key = "") =>
          /\ posts = << >> /\ inflight = {} /\ served = << >>
          /\ results = << >>
          /\ pc = "gen_idle" =>
                outcome = Raised(<<"Stability AI API key not configured">>)

C1_Witness ==
    /\ op.name = "Upscale"
    /\ secrets_key = "" /\ env_key = ""
    /\ pc = "idle"
    /\ posts = << >>
    /\ outcome = Stopped(MissingKeyMsg)

Non200(reply) == reply.kind = "http" /\ reply.status # 200

\* C2: when a request is answered with a non-200 status, the action ends in
\* one failure whose message contains the response body text, renders no
\* image, and leaves the history ledger as it was.
C2_Non200Fails ==
    [][ \A req \in inflight \ inflight' :
            Non200(served'[req.idx]) =>
                /\ outcome'.kind \in {"error", "raised"}
                /\ Len(outcome'.errors) = 1
                /\ Contains(outcome'.errors[1], served'[req.idx].text)
                /\ outcome'.images = << >>
                /\ history' = history
                /\ pc' \in {"idle", "gen_idle"} ]_vars

C2_Witness ==
    /\ op.name = "Generate" /\ pc = "idle"
    /\ 1 \in DOMAIN served /\ served[1].kind = "http" /\ served[1].status = 429
    /\ outcome = Errored(<<"Generation failed: ", "HTTP ", "429", ": ", "rate limited">>)
    /\ Len(history) = 1

\* what the running operation makes of the reply to its request
WrapperResult(reply) ==
    CASE op.name = "Generate" -> txt2img(reply)
      [] op.name \in {"Transform", "Variations"} -> img2img(reply)
      [] op.name = "Inpaint" -> inpaint(reply)
      [] op.name = "Upscale" -> upscale_esrgan(reply)
      [] OTHER -> GenerateImageResult(reply)

\* C8: generate_multiple with num_variants = N >= 1 and every call succeeding
\* issues exactly N POSTs, each with the same enhanced prompt and the mapped
\* aspect ratio, and returns exactly N images.
C8_OnePostPerSample ==
    ( /\ op.name = "generate_multiple" /\ pc = "gen_idle"
      /\ api_key # ""
      /\ \A k \in DOMAIN served : ~GenerateImageResult(served[k]).raised ) =>
        /\ outcome.kind = "returned"
        /\ Len(outcome.images) = op.num_variants
        /\ Len(posts) = op.num_variants
        /\ \A k \in 1..Len(posts) :
            /\ posts[k].data.prompt = enhance_prompt(op.prompt, op.style, TRUE)
            /\ posts[k].data.aspect_ratio = ApiAspectRatio(op.aspect_ratio)

C8_Witness ==
    /\ op.name = "generate_multiple" /\ pc = "gen_idle"
    /\ op.prompt = <<"a red fox">> /\ op.style = "Photorealistic"
    /\ op.num_variants = 1
    /\ outcome.kind = "returned" /\ Len(outcome.images) = 1
    /\ Len(posts) = 1
    /\ posts[1].data.prompt =
         <<"a red fox", ", ",
           "ultra-realistic, high-definition, professional photography, sharp details",
           ", ", "high quality, detailed, professional, sharp focus">>

\* C9: an error during an action (non-200 status, timeout, connection
\* failure, decode failure) ends the action in exactly one failure message,
\* and nothing is retried: no request index is posted twice, and a failed
\* request is the last one the action issued.
C9_NoRetry ==
    /\ \A j, k \in 1..Len(posts) : posts[j].idx = posts[k].idx => j = k
    /\ \A k \in DOMAIN served :
          WrapperResult(served[k]).raised =>
              /\ inflight = {}
              /\ pc \in {"idle", "gen_idle"}
              /\ outcome.kind \in {"error", "raised"}
              /\ Len(outcome.errors) = 1
              /\ outcome.images = << >>
              /\ posts[Len(posts)].idx = k

C9_Witness ==
    /\ op.name = "Transform" /\ pc = "idle"
    /\ Len(posts) = 1
    /\ 1 \in DOMAIN served /\ served[1].kind = "timeout"
    /\ outcome = Errored(<<"Transformation failed: ", "Read timed out.">>)

\* C10: generate_multiple issues its requests one after the other, request
\* i+1 only after request i was answered, so at most one is in flight; and
\* position i of the result holds the image returned for the i-th request.
C10_Sequential ==
    op.name = "generate_multiple" =>
        /\ Cardinality(inflight) <= 1
        /\ \A k \in 1..Len(posts) : posts[k].idx = k
        /\ \A k \in 1..(Len(posts) - 1) : k \in DOMAIN served
        /\ Len(results) <= Len(posts)
        /\ \A k \in 1..Len(results) :
              /\ k \in DOMAIN served
              /\ results[k] = Image_open(served[k].content).value
        /\ outcome.kind = "returned" => outcome.images = results

C10_Witness ==
    /\ op.name = "generate_multiple" /\ pc = "gen_idle"
    /\ outcome.kind = "returned"
    /\ outcome.images = <<"imgB", "imgA">>
    /\ served[1].content = "png:B" /\ served[2].content = "png:A"

\* C11, as claimed: every request carries a fixed timeout, 60 seconds for a
\* generate (text-to-image) or transform (image-to-image) request and 90
\* seconds for an upscale request.
C11_Timeout60Or90 ==
    \A k \in 1..Len(posts) :
        /\ (op.name \in {"Generate", "Transform", "Variations"} \cup GenCalls) =>
              posts[k].timeout = 60
        /\ op.name = "Upscale" => posts[k].timeout = 90

\* C11, amended: every request carries a fixed timeout: 60 seconds for the
\* generator class's generate request, 90 seconds for the app's text-to-image
\* request, and 120 seconds for the app's image-to-image, inpaint and upscale
\* requests.
C11_TimeoutPerOperation ==
    \A req \in {posts[k] : k \in 1..Len(posts)} \cup inflight :
        req.timeout =
            CASE op.name \in GenCalls -> 60
              [] op.name = "Generate" -> 90
              [] op.name \in {"Transform", "Variations", "Inpaint", "Upscale"} -> 120

C11_Witness ==
    /\ op.name = "Upscale" /\ pc = "await"
    /\ Len(posts) = 1 /\ posts[1] \in inflight
    /\ posts[1].url = <<ESRGAN_ENGINE, "image-to-image/upscale">>
    /\ posts[1].timeout = 120

\* the target dimensions an upscale request carries
SentDimensions(req) == DOMAIN req.data \cap {"width", "height"}

\* C12: an upscale request carries no target dimension, or a width, or a
\* height, never both, and a dimension it carries is at least 512, for every
\* pair of target width and height the Upscale tab accepts.
C12_OneDimensionAtMost ==
    \A req \in inflight :
        op.name = "Upscale" =>
            /\ Cardinality(SentDimensions(req)) <= 1
            /\ \A dim \in SentDimensions(req) : req.data[dim] >= 512

\* the part of C12 the code keeps: a dimension that is sent is at least 512
C12_SentDimensionAtLeast512 ==
    \A req \in inflight :
        op.name = "Upscale" =>
            \A dim \in SentDimensions(req) : req.data[dim] >= 512

\* the images the running action gets out of the reply to its request: none
\* when the call raised
ImagesOf(reply) ==
    LET r == WrapperResult(reply)
    IN  IF r.raised THEN << >>
        ELSE IF op.name = "Upscale" THEN <<r.value>>
        ELSE r.value

\* C13: in every step of an action (Generate, Transform, Inpaint, Upscale,
\* Variations) the ledger gains an entry only when the action's call returned
\* at least one image, and then exactly one entry at the head, whatever the
\* number of images; a failed call, an empty image sequence and a halt for a
\* missing credential or missing mask leave the ledger unchanged.
C13_OneEntryPerSuccess ==
    [][ op'.name \in AppActions =>
          IF \E req \in inflight \ inflight' : ImagesOf(served'[req.idx]) # << >>
          THEN /\ outcome'.kind = "rendered"
               /\ Len(history') = Len(history) + 1
               /\ SubSeq(history', 2, Len(history')) = history
               /\ history'[1].mode = op.name
               /\ recorded' = Append(recorded, recorded'[Len(recorded')])
          ELSE /\ outcome'.kind \in {"none", "stopped", "error", "warning"}
               /\ history' = history
               /\ recorded' = recorded ]_vars

C13_Witness ==
    /\ op.name = "Generate" /\ pc = "idle"
    /\ outcome = Rendered(<<"imgA", "imgB">>)
    /\ Len(history) = 1 /\ Len(recorded) = 1
    /\ history[1].mode = "Generate"

\* C14: when the k-th of the N calls of generate_multiple fails (k <= N), the
\* operation ends by raising that failure to its caller; the caller gets the
\* exception alone, neither the k-1 images obtained so far nor their cost;
\* none of the remaining N-k requests is issued, so exactly k POSTs were.
C14_AllOrNothing ==
    op.name = "generate_multiple" =>
        \A k \in DOMAIN served :
            GenerateImageResult(served[k]).raised =>
                /\ k <= op.num_variants
                /\ pc = "gen_idle"
                /\ outcome = Raised(GenerateImageResult(served[k]).msg)
                /\ outcome.images = << >>
                /\ Len(results) = k - 1
                /\ total_cost = (k - 1) * cost_per_image
                /\ Len(posts) = k
                /\ DOMAIN served = 1..k
                /\ inflight = {}

C14_Witness ==
    /\ op.name = "generate_multiple" /\ op.num_variants = 3
    /\ pc = "gen_idle"
    /\ Len(posts) = 2 /\ DOMAIN served = 1..2
    /\ served[1].kind = "http" /\ served[1].status = 200
    /\ served[2].kind = "timeout"
    /\ results = <<"imgA">>
    /\ outcome = Raised(<<"Generation failed: ", "Read timed out.">>)

\* a 200 answer whose body parses as JSON, and its artifacts list
JsonAnswer(reply) == reply.kind = "http" /\ reply.status = 200 /\ reply.json_ok
ArtsOf(reply) ==
    IF "artifacts" \in DOMAIN reply.json THEN reply.json.artifacts ELSE << >>

Decodable(art) == HasPayload(art) /\ IsImage(art)

NoImagesShown == Errored(<<"Upscale failed: ", "Upscale returned no images">>)

\* the Upscale action rendered img alone and recorded it in one entry
UpscaledTo(img) ==
    /\ outcome' = Rendered(<<"upload", img>>)
    /\ Len(history') = Len(history) + 1
    /\ history'[1].mode = "Upscale"
    /\ history'[1].count = 1 /\ history'[1].images = <<img>>

====
